---- MODULE Spec2Model ----
(***************************************************************************)
(* Petal: the recursive-descent parser (src/src/parser/parser.cpp) and the *)
(* assembly generator (src/src/generator/generator.hpp) as one state       *)
(* machine.  A behaviour is one compilation: the parser walks the token    *)
(* vector with its cursor `index` and look-ahead `curr`, one step per code *)
(* segment between two calls of a parse function (the C++ call stack is    *)
(* the variable `stack`), and then the generator walks the finished AST.   *)
(* Indices are 0-based as in the source: tokens[i] of the code is At(i).   *)
(***************************************************************************)
EXTENDS Integers, Sequences, FiniteSets, TLC

VARIABLES
  tokens,        \* Parser::tokens, the token vector handed to the parser
  index,         \* Parser::index (0-based)
  curr,          \* Parser::curr
  stack,         \* the C++ call stack of parse functions, innermost last
  _ast,          \* Parser::_ast
  cerr,          \* the diagnostics written to std::cerr, in order
  status,        \* where the compilation is: parsing, parsed, generating, ...
  gi,            \* the loop variable i of Generator::Generator
  output,        \* Generator::output, the lines written so far
  fn_arg_ids,    \* Generator::fn_arg_ids
  curr_fn_type,  \* Generator::curr_fn_type
  files          \* the content of the output file after each finished run

pvars == <<tokens, index, curr, stack, _ast, cerr>>
gvars == <<gi, output, fn_arg_ids, curr_fn_type, files>>
vars == <<tokens, index, curr, stack, _ast, cerr, status, gi, output,
          fn_arg_ids, curr_fn_type, files>>

----------------------------------------------------------------------------
(* Bounds of the model.                                                    *)

MaxArgs == 2      \* declared parameters of a function: 0..MaxArgs
MaxParams == 2    \* parameters of a call: 0..MaxParams
MaxStray == 1     \* stray `;` tokens between two declarations
MaxSuffix == 1    \* arbitrary tokens appended after a malformed header
MaxAst == 3       \* capacity of Parser::_ast (memory)
MaxNodes == 6     \* capacity of the children of one node (memory)
MaxRuns == 2      \* generator runs over the same AST

----------------------------------------------------------------------------
(* Tokens and AST nodes (src/src/headers/ast.hpp).                         *)

Token(t, l) == [type |-> t, lexeme |-> l]

ASTNode(t, v, c) == [type |-> t, value |-> v, children |-> c]

\* Token{TokenType::TOK_EOF, "\0"}: the std::string built from "\0" is empty.
EOFToken == Token("TOK_EOF", "")

\* `ASTNode fn;` leaves fn.type unset; the value is fixed when the node is
\* handed to the caller (see IndeterminateTypes).
UNINIT == "<uninitialized>"

\* An unset ASTNodeType byte can hold any value: the values the generator's
\* switch has an arm for, and one (UNKNOWN) for all those it has none for.
IndeterminateTypes == {"UNKNOWN", "FN_DECL", "FN_DEF", "STRUCT_DECL", "STRUCT_DEF"}

At(i) == tokens[i + 1]

----------------------------------------------------------------------------
(* The parser's registers as one value p = [index, curr, cerr], so that a  *)
(* parse function that calls no other is an operator from p to the node it *)
(* returns and the p it leaves.                                            *)

\* consume starting over at the first token once the last one is passed
consume_rewinding(p) ==
  IF p.index + 1 < Len(tokens)
    THEN [p EXCEPT !.index = p.index + 1, !.curr = At(p.index + 1)]
    ELSE [p EXCEPT !.index = 0, !.curr = At(0)]

\* Parser::consume
consume(p) ==
  IF p.index + 1 < Len(tokens)
    THEN [p EXCEPT !.index = p.index + 1, !.curr = At(p.index + 1)]
    ELSE [p EXCEPT !.curr = EOFToken]

\* Parser::expect
expect(p, type) == At(p.index).type = type

\* operator<< on std::cerr
Diag(p, msg) == [p EXCEPT !.cerr = Append(@, msg)]

\* Parser::parse_literal
parse_literal(p) == ASTNode("LITERAL", p.curr.lexeme, <<>>)

\* Parser::parse_var_call
parse_var_call(p) == ASTNode("VAR_CALL", p.curr.lexeme, <<>>)

\* Parser::parse_fn_arg_type
parse_fn_arg_type(p) == ASTNode("TYPE", p.curr.lexeme, <<>>)

\* Parser::parse_fn_ret_type
parse_fn_ret_type(p) ==
  LET p1 == [p EXCEPT !.curr = At(p.index)] IN
  CASE p1.curr.type = "ID" ->
         [p |-> p1, node |-> ASTNode("FN_RET_TYPE", "", <<>>)]
    [] p1.curr.type \in {"CHAR", "I32"} ->
         [p |-> p1, node |-> ASTNode("FN_RET_TYPE", p1.curr.lexeme, <<>>)]
    [] OTHER ->
         [p |-> Diag(p1, "ERROR(parse_fn_ret_type)"),
          node |-> ASTNode("FN_RET_TYPE", "", <<>>)]

\* Parser::parse_fn_arg
parse_fn_arg(p) ==
  LET p1 == consume(p) IN
  IF p1.curr.type = "COLON"
    THEN LET p2 == consume(p1) IN
         CASE p2.curr.type \in {"I32", "CHAR"} ->
                [p |-> p2,
                 node |-> ASTNode("FN_ARG", p.curr.lexeme, <<parse_fn_arg_type(p2)>>)]
           [] OTHER ->
                [p |-> Diag(p2, "IMPLEMENT(parse_fn_arg)"),
                 node |-> ASTNode("FN_ARG", p.curr.lexeme, <<>>)]
    ELSE [p |-> Diag(p1, "ERROR(parse_fn_arg)"),
          node |-> ASTNode("FN_ARG", p.curr.lexeme, <<>>)]

\* Parser::parse_pub_struct_member
parse_pub_struct_member(p) ==
  LET p1 == consume(p) IN
  IF p1.curr.type = "ID"
    THEN LET p2 == consume(p1) IN
         IF p2.curr.type = "I32"
           THEN [p |-> p2,
                 node |-> ASTNode("PUB_STRUCT_MEMBER", p.curr.lexeme,
                                  <<ASTNode("TYPE", p2.curr.lexeme, <<>>)>>)]
           ELSE [p |-> Diag(p2, "ERROR(parse_pub_struct_member): type"),
                 node |-> ASTNode("PUB_STRUCT_MEMBER", p.curr.lexeme, <<>>)]
    ELSE [p |-> Diag(p1, "ERROR(parse_pub_struct_member): colon"),
          node |-> ASTNode("PUB_STRUCT_MEMBER", p.curr.lexeme, <<>>)]

\* Parser::parse_struct_member
parse_struct_member(p) == ASTNode("STRUCT_MEMBER", p.curr.lexeme, <<>>)

----------------------------------------------------------------------------
(* The parser as a machine m = [index, curr, cerr, stack, ast, status].    *)
(* A frame of the stack is one active call of a parse function: the        *)
(* function, the place it resumes at, and the node it is building.         *)

Frame(f, pc, node) == [fn |-> f, pc |-> pc, node |-> node]

Regs(m) == [index |-> m.index, curr |-> m.curr, cerr |-> m.cerr]

WithRegs(m, p) == [m EXCEPT !.index = p.index, !.curr = p.curr, !.cerr = p.cerr]

Top(m) == m.stack[Len(m.stack)]

\* the running function updates its own frame
SetTop(m, pc, node) ==
  [m EXCEPT !.stack[Len(m.stack)] = Frame(Top(m).fn, pc, node)]

\* the running function calls f and will resume at pc
Call(m, pc, node, f, fnode) ==
  [m EXCEPT !.stack = Append([@ EXCEPT ![Len(@)] = Frame(Top(m).fn, pc, node)],
                             Frame(f, "start", fnode))]

\* exit(1)
Exit(m) == [m EXCEPT !.status = "aborted", !.stack = <<>>]

\* std::vector::push_back beyond the memory of the model: std::bad_alloc is
\* thrown, nothing catches it, the process is terminated.
BadAlloc(m) == [m EXCEPT !.status = "bad_alloc", !.stack = <<>>]

\* `return node;`: the frame is popped and the caller receives the node, in
\* _ast.push_back(parse_fn()), statement = parse_ret_statement(), or
\* x.children.push_back(parse_y()).
Return(m, node) ==
  LET rest == SubSeq(m.stack, 1, Len(m.stack) - 1) IN
  IF rest = <<>>
    THEN IF Len(m.ast) >= MaxAst
           THEN BadAlloc(m)
           ELSE [m EXCEPT !.stack = rest, !.ast = Append(@, node)]
    ELSE LET caller == rest[Len(rest)] IN
         IF caller.fn = "parse_statement"
           THEN [m EXCEPT !.stack = [rest EXCEPT ![Len(rest)].node = node]]
           ELSE IF Len(caller.node.children) >= MaxNodes
                  THEN BadAlloc(m)
                  ELSE [m EXCEPT !.stack =
                          [rest EXCEPT ![Len(rest)].node.children = Append(@, node)]]

\* the child put in front of the children the node already has
Push_front(node, child) == [node EXCEPT !.children = <<child>> \o @]

\* x.children.push_back(node) in the running function
Push(node, child) == [node EXCEPT !.children = Append(@, child)]

----------------------------------------------------------------------------
(* One step of each parse function: from the place the top frame is at to  *)
(* the next call, return or loop iteration.                                *)

\* Parser::Parser, one iteration of `while (index < tokens.size())`
Parser_step(m) ==
  IF ~(m.index < Len(tokens))
    THEN [m EXCEPT !.status = "parsed"]
    ELSE CASE At(m.index).type = "FN" ->
                [WithRegs(m, consume(Regs(m))) EXCEPT
                   !.stack = <<Frame("parse_fn", "start", ASTNode(UNINIT, "", <<>>))>>]
           [] At(m.index).type = "STRUCT" ->
                [WithRegs(m, consume(Regs(m))) EXCEPT
                   !.stack = <<Frame("parse_struct", "start", ASTNode(UNINIT, "", <<>>))>>]
           [] OTHER -> [m EXCEPT !.index = m.index + 1]

\* the value an unset `type` member turns out to hold
Settle(node, t) == IF node.type = UNINIT THEN [node EXCEPT !.type = t] ELSE node

\* Parser::parse_fn, lines 284-313: from `curr = consume();` after the head
parse_fn_tail(m, fn, t) ==
  LET p1 == consume(Regs(m)) IN
  CASE p1.curr.type = "ARROW" ->
         LET p2 == consume(p1)
             r == parse_fn_ret_type(p2)
             fn1 == Push(fn, r.node)
             p3 == consume(r.p)
         IN  IF expect(p3, "LCURL")
               THEN Call(WithRegs(m, consume(p3)), "tail",
                         [fn1 EXCEPT !.type = "FN_DECL"],
                         "parse_fn_body", ASTNode("FN_BODY", "", <<>>))
               ELSE IF expect(p3, "SEMICOLON")
                 THEN Return(WithRegs(m, consume(p3)), [fn1 EXCEPT !.type = "FN_DEF"])
                 ELSE Return(WithRegs(m, Diag(p3, "ERROR: Expected a '{' or ';'")),
                             Settle(fn1, t))
    [] p1.curr.type = "LCURL" ->
         Call(WithRegs(m, consume(p1)), "tail", fn,
              "parse_fn_body", ASTNode("FN_BODY", "", <<>>))
    [] p1.curr.type = "SEMICOLON" ->
         Return(WithRegs(m, p1), [fn EXCEPT !.type = "FN_DEF"])
    [] OTHER ->
         Return(WithRegs(m, Diag(p1, "ERROR: Expected an '->', '{' or ';'")),
                Settle(fn, t))

\* Parser::parse_fn; t is the value fn.type holds if the function returns
\* without having assigned it
parse_fn(m, t) ==
  LET f == Top(m) IN
  CASE f.pc = "start" ->
         IF ~expect(Regs(m), "ID")
           THEN Return(WithRegs(m, Diag(Regs(m), "ERROR(parse_fn)")),
                       Settle(f.node, t))
           ELSE LET fn == [f.node EXCEPT !.value = At(m.index).lexeme]
                    p1 == consume(Regs(m))
                IN  IF p1.curr.type = "LPAR"
                      THEN Call(WithRegs(m, consume(p1)), "head", fn,
                                "parse_arg_list", ASTNode("FN_ARG_LIST", "", <<>>))
                      ELSE parse_fn_tail(WithRegs(m, Diag(p1, "ERROR(parse_fn_head)")),
                                         fn, t)
    [] f.pc = "head" -> parse_fn_tail(m, f.node, t)
    [] f.pc = "tail" -> Return(m, Settle(f.node, t))

\* Parser::parse_arg_list, one iteration of `while (curr.type != RPAR)`
parse_arg_list(m) ==
  LET args == Top(m).node
      p == Regs(m)
  IN  IF ~(p.curr.type # "RPAR")
        THEN Return(m, args)
        ELSE CASE p.curr.type = "ID" ->
                    LET r == parse_fn_arg(p) IN
                    SetTop(WithRegs(m, consume(r.p)), "start", Push(args, r.node))
               [] p.curr.type = "COMMA" ->
                    WithRegs(m, consume(consume(p)))
               [] OTHER ->
                    Exit(WithRegs(m, Diag(p, "ERROR(parse_arg_list)")))

\* Parser::parse_fn_body
parse_fn_body(m) ==
  LET f == Top(m) IN
  CASE f.pc = "start" ->
         IF m.curr.type = "RCURL"
           THEN Return(WithRegs(m, consume(Regs(m))), f.node)
           ELSE Call(m, "tail", f.node,
                     "parse_statement", ASTNode("UNKNOWN", "", <<>>))
    [] f.pc = "tail" -> Return(m, f.node)

\* Parser::parse_statement
parse_statement(m) ==
  LET f == Top(m) IN
  CASE f.pc = "start" ->
         IF m.curr.type = "RET"
           THEN Call(m, "after_ret", f.node,
                     "parse_ret_statement", ASTNode("FN_RETURN", "", <<>>))
           ELSE Return(m, f.node)
    [] f.pc = "after_ret" ->
         LET statement == [f.node EXCEPT !.type = "FN_RETURN"]
             p1 == consume(Regs(m))
         IN  IF p1.curr.type = "INTEGER_LIT"
               THEN Return(WithRegs(m, p1), [statement EXCEPT !.value = p1.curr.lexeme])
               ELSE Return(WithRegs(m, p1), statement)

\* the `case TokenType::ID:` arm shared by parse_ret_statement and
\* parse_fn_call_param: a call, a variable, or the look-ahead out of bounds
IdArm(m, node, who) ==
  IF m.index + 1 < Len(tokens)
    THEN IF At(m.index + 1).type = "LPAR"
           THEN Call(m, "tail", node, "parse_fn_call", ASTNode("FN_CALL", "", <<>>))
           ELSE Return(m, Push(node, parse_var_call(Regs(m))))
    ELSE Return(WithRegs(m, Diag(Regs(m), who)), node)

\* Parser::parse_ret_statement
parse_ret_statement(m) ==
  LET f == Top(m) IN
  CASE f.pc = "start" ->
         LET m1 == WithRegs(m, consume(Regs(m))) IN
         CASE m1.curr.type = "ID" ->
                IdArm(m1, f.node, "ERROR(parse_ret_statement()): Index out of bounds")
           [] m1.curr.type = "INTEGER_LIT" ->
                Return(m1, Push(f.node, parse_literal(Regs(m1))))
           [] OTHER ->
                Return(WithRegs(m1, Diag(Regs(m1), "IMPLEMENTATION(parse_ret_statement)")),
                       f.node)
    [] f.pc = "tail" -> Return(m, f.node)

\* Parser::parse_fn_call_param
parse_fn_call_param(m) ==
  LET f == Top(m) IN
  CASE f.pc = "start" ->
         CASE m.curr.type = "ID" ->
                IdArm(m, f.node, "ERROR(parse_fn_call_param): Index out of bounds")
           [] m.curr.type = "INTEGER_LIT" ->
                Return(m, Push(f.node, parse_literal(Regs(m))))
           [] m.curr.type = "COMMA" -> Return(m, f.node)
           [] OTHER ->
                Return(WithRegs(m, Diag(Regs(m), "IMPLEMENT(parse_fn_call)")), f.node)
    [] f.pc = "tail" -> Return(m, f.node)

\* Parser::parse_fn_call, the test of `while (curr.type != RPAR)` and what
\* follows it
parse_fn_call_loop(m, call) ==
  IF m.curr.type # "RPAR"
    THEN Call(m, "after_param", call,
              "parse_fn_call_param", ASTNode("FN_CALL_PARAM", "", <<>>))
    ELSE Return(WithRegs(m, consume(Regs(m))), call)

\* Parser::parse_fn_call
parse_fn_call(m) ==
  LET f == Top(m) IN
  CASE f.pc = "start" ->
         parse_fn_call_loop(WithRegs(m, consume(consume(Regs(m)))),
                            [f.node EXCEPT !.value = m.curr.lexeme])
    [] f.pc = "after_param" ->
         parse_fn_call_loop(WithRegs(m, consume(Regs(m))), f.node)

\* Parser::parse_struct_body; the loop test (pc "start") and the loop body
\* (pc "switch") are two steps
parse_struct_body(m) ==
  LET f == Top(m)
      p == Regs(m)
  IN  CASE f.pc = "start" ->
             IF p.curr.type # "RCURL"
               THEN SetTop(m, "switch", f.node)
               ELSE Return(m, f.node)
        [] f.pc = "switch" ->
             CASE p.curr.type = "PUB" ->
                    LET r == parse_pub_struct_member(consume(p)) IN
                    SetTop(WithRegs(m, consume(r.p)), "start", Push(f.node, r.node))
               [] p.curr.type = "ID" ->
                    SetTop(WithRegs(m, consume(p)), "start",
                           Push(f.node, parse_struct_member(p)))
               [] OTHER ->
                    SetTop(WithRegs(m, consume(p)), "start", f.node)

\* Parser::parse_struct; t as in parse_fn
parse_struct(m, t) ==
  LET f == Top(m) IN
  CASE f.pc = "start" ->
         IF m.curr.type = "ID"
           THEN LET struc == [f.node EXCEPT !.value = m.curr.lexeme]
                    p1 == consume(Regs(m))
                IN  CASE p1.curr.type = "SEMICOLON" ->
                           Return(WithRegs(m, p1), [struc EXCEPT !.type = "STRUCT_DECL"])
                      [] p1.curr.type = "LCURL" ->
                           Call(WithRegs(m, consume(p1)), "tail",
                                [struc EXCEPT !.type = "STRUCT_DEF"],
                                "parse_struct_body", ASTNode("STRUCT_BODY", "", <<>>))
                      [] OTHER ->
                           Return(WithRegs(m, Diag(p1, "ERROR(parse_struct)")),
                                  Settle(struc, t))
           ELSE Return(m, Settle(f.node, t))
    [] f.pc = "tail" -> Return(m, f.node)

----------------------------------------------------------------------------
(* The generator (src/src/generator/generator.hpp).  The output stream is  *)
(* the sequence of the lines written to it.  A line is [op, sym, imm]: the *)
(* instruction or directive, the symbol it names as <<prefix, name>> (the  *)
(* text is prefix followed by name), and its immediate operand.            *)
(* The generator's registers are g = [output, fn_arg_ids, curr_fn_type,    *)
(* cerr, crashed].                                                         *)

NoSym == <<"", "">>

Line(op, sym, imm) == [op |-> op, sym |-> sym, imm |-> imm]

Emit(g, line) == [g EXCEPT !.output = Append(@, line)]

GDiag(g, msg) == [g EXCEPT !.cerr = Append(@, msg)]

\* the lexemes of the integer literals of the model: the strings whose first
\* character is a digit
IntLexemes == {"0", "1", "2", "3"}

\* isdigit(value[0])
isdigit0(value) == value \in IntLexemes

\* What reading ret.children[0] of an empty vector can do (undefined
\* behaviour): the process dies, or the switch sees a type that is not
\* there and emits nothing, the variable load, or a line of garbage.
UBOutcomes == {"crash", "nothing", "var_load", "garbage"}

\* the symbol of a function: `main` unmangled, any other name with "_"
Mangle(name) == IF name = "main" THEN <<"", "main">> ELSE <<"_", name>>

\* link with every symbol mangled, `main` too
link_mangling_main(g, str) ==
  LET g1 == Emit(g, Line("# fn", <<"", str>>, ""))
      g2 == Emit(g1, Line(".globl", <<"_", str>>, ""))
  IN  Emit(g2, Line("label", <<"_", str>>, ""))

\* Generator::link
link(g, str) ==
  LET g1 == Emit(g, Line("# fn", <<"", str>>, ""))
      g2 == Emit(g1, Line(".globl", Mangle(str), ""))
  IN  Emit(g2, Line("label", Mangle(str), ""))

\* Generator::setup_stack_ptr
setup_stack_ptr(g) ==
  Emit(Emit(Emit(g, Line("# setup stack ptr", NoSym, "")),
            Line("pushq %rbp", NoSym, "")),
       Line("movq %rsp, %rbp", NoSym, ""))

\* Generator::return_stack_ptr
return_stack_ptr(g) ==
  Emit(Emit(Emit(g, Line("# return stack ptr", NoSym, "")),
            Line("popq %rbp", NoSym, "")),
       Line("ret", NoSym, ""))

\* Generator::fn_arg_gen, the body of its loop for child i
RECURSIVE fn_arg_gen_loop(_, _, _)
fn_arg_gen_loop(g, arg, i) ==
  IF ~(i < Len(arg.children))
    THEN g
    ELSE LET c == arg.children[i + 1]
             g1 == IF c.type = "TYPE"
                     THEN IF c.value = "i32"
                            THEN Emit(g, Line("movl %ecx, 16(%rbp)", NoSym, ""))
                            ELSE IF c.value = "&[char]"
                              THEN Emit(g, Line("movq %rdx, 24(%rbp)", NoSym, ""))
                              ELSE GDiag(g, "IMPLEMENT(fn_arg_gen)")
                     ELSE GDiag(g, "IMPLEMENT(fn_arg_gen)")
         IN  fn_arg_gen_loop(g1, arg, i + 1)

\* Generator::fn_arg_gen
fn_arg_gen(g, arg) ==
  fn_arg_gen_loop([g EXCEPT !.fn_arg_ids = Append(@, arg.value)], arg, 0)

\* Generator::fn_arg_list_gen
RECURSIVE fn_arg_list_gen_loop(_, _, _)
fn_arg_list_gen_loop(g, args, i) ==
  IF ~(i < Len(args.children))
    THEN g
    ELSE LET c == args.children[i + 1]
             g1 == IF c.type = "FN_ARG"
                     THEN fn_arg_gen(g, c)
                     ELSE GDiag(g, "IMPLEMENT(fn_arg_list_gen)")
         IN  fn_arg_list_gen_loop(g1, args, i + 1)

fn_arg_list_gen(g, args) == fn_arg_list_gen_loop(g, args, 0)

\* Generator::fn_call_param_gen
RECURSIVE fn_call_param_gen_loop(_, _, _)
fn_call_param_gen_loop(g, param, i) ==
  IF ~(i < Len(param.children))
    THEN g
    ELSE LET c == param.children[i + 1]
             g1 == IF c.type = "LITERAL"
                     THEN Emit(g, Line("movl $imm, %ecx", NoSym, c.value))
                     ELSE GDiag(g, "IMPLEMENT(fn_call_param_gen)")
         IN  fn_call_param_gen_loop(g1, param, i + 1)

fn_call_param_gen(g, param) == fn_call_param_gen_loop(g, param, 0)

\* Generator::fn_call_gen, lines 159-168
RECURSIVE fn_call_gen_loop(_, _, _)
fn_call_gen_loop(g, call, i) ==
  IF ~(i < Len(call.children))
    THEN g
    ELSE LET c == call.children[i + 1]
             g1 == IF c.type = "FN_CALL_PARAM"
                     THEN fn_call_param_gen(g, c)
                     ELSE GDiag(g, "IMPLEMENT(fn_call_gen)")
         IN  fn_call_gen_loop(g1, call, i + 1)

\* fn_call_gen with the call instruction written before the parameters
fn_call_gen_call_first(g, call) ==
  fn_call_gen_loop(Emit(g, Line("call", Mangle(call.value), "")), call, 0)

\* Generator::fn_call_gen
fn_call_gen(g, call) ==
  Emit(fn_call_gen_loop(g, call, 0), Line("call", Mangle(call.value), ""))

\* Generator::fn_return_gen; ub is what the read of a missing child does
fn_return_gen(g, ret, ub) ==
  IF Len(ret.children) = 0
    THEN CASE ub = "crash" -> [g EXCEPT !.crashed = TRUE]
           [] ub = "nothing" -> g
           [] ub = "var_load" -> Emit(g, Line("movl 16(%rbp), %eax", NoSym, ""))
           [] ub = "garbage" -> Emit(g, Line("<garbage>", NoSym, ""))
    ELSE LET c == ret.children[1] IN
         CASE c.type = "FN_CALL" -> fn_call_gen(g, c)
           [] c.type = "LITERAL" ->
                IF isdigit0(c.value)
                  THEN Emit(g, Line("movl $imm, %eax", NoSym, c.value))
                  ELSE GDiag(g, "IMPLEMENT(fn_return_gen)")
           [] c.type = "VAR_CALL" -> Emit(g, Line("movl 16(%rbp), %eax", NoSym, ""))
           [] OTHER -> g

\* Generator::fn_body_gen
RECURSIVE fn_body_gen_loop(_, _, _, _)
fn_body_gen_loop(g, body, i, ub) ==
  IF g.crashed \/ ~(i < Len(body.children))
    THEN g
    ELSE LET c == body.children[i + 1]
             g1 == IF c.type = "FN_RETURN"
                     THEN fn_return_gen(g, c, ub)
                     ELSE GDiag(g, "IMPLEMENT(fn_body_gen)")
         IN  fn_body_gen_loop(g1, body, i + 1, ub)

fn_body_gen(g, body, ub) == fn_body_gen_loop(g, body, 0, ub)

\* Generator::fn_gen, lines 221-247
RECURSIVE fn_gen_loop(_, _, _, _)
fn_gen_loop(g, fn, i, ub) ==
  IF g.crashed \/ ~(i < Len(fn.children))
    THEN g
    ELSE LET c == fn.children[i + 1]
             g1 == CASE c.type = "FN_ARG_LIST" ->
                          IF fn.value = "main"
                            THEN IF Len(c.children) = 2
                                   THEN fn_arg_list_gen(g, c)
                                   ELSE IF Len(c.children) = 0
                                     THEN g
                                     ELSE fn_arg_list_gen(GDiag(g, "WARNING(fn_gen)"), c)
                            ELSE IF Len(c.children) = 0
                                   THEN g
                                   ELSE fn_arg_list_gen(g, c)
                     [] c.type = "FN_BODY" -> fn_body_gen(g, c, ub)
                     [] OTHER -> g
         IN  fn_gen_loop(g1, fn, i + 1, ub)

\* Generator::fn_gen
fn_gen(g, fn, ub) ==
  LET g1 == setup_stack_ptr(link([g EXCEPT !.curr_fn_type = fn.value], fn.value))
      g2 == fn_gen_loop(g1, fn, 0, ub)
  IN  IF g2.crashed THEN g2 ELSE return_stack_ptr(g2)

\* Generator::struct_gen
struct_gen(g, struc) == g

\* Generator::Generator, lines 55-57
Header ==
  <<Line("# translation unit", NoSym, ""), Line(".file", NoSym, ""),
    Line(".text", NoSym, "")>>

\* Generator::Generator, one iteration of `for (i = 0; i < ast.size(); ++i)`:
\* [g, next] with next the value of i after it, or -1 when the loop is left.
Generator_step(g, nodes, i, ub) ==
  IF ~(i < Len(nodes))
    THEN [g |-> g, next |-> -1]
    ELSE LET n == nodes[i + 1] IN
         CASE n.type = "FN_DECL" -> [g |-> fn_gen(g, n, ub), next |-> i + 1]
           [] n.type = "FN_DEF" -> [g |-> g, next |-> -1]
           [] n.type = "STRUCT_DECL" -> [g |-> struct_gen(g, n), next |-> -1]
           [] n.type = "STRUCT_DEF" -> [g |-> g, next |-> -1]
           [] OTHER -> [g |-> GDiag(g, "<implement>"), next |-> -1]

----------------------------------------------------------------------------
(* The token sequences the parser is run on.                               *)

Kw ==
  [FN |-> Token("FN", "fn"), STRUCT |-> Token("STRUCT", "struct"),
   PUB |-> Token("PUB", "pub"), RET |-> Token("RET", "ret"),
   LPAR |-> Token("LPAR", "("), RPAR |-> Token("RPAR", ")"),
   LCURL |-> Token("LCURL", "{"), RCURL |-> Token("RCURL", "}"),
   COMMA |-> Token("COMMA", ","), SEMICOLON |-> Token("SEMICOLON", ";"),
   COLON |-> Token("COLON", ":"), ARROW |-> Token("ARROW", "->"),
   I32 |-> Token("I32", "i32"), CHAR |-> Token("CHAR", "char"),
   PLUS |-> Token("PLUS", "+")]

Id(name) == Token("ID", name)

IntLit(v) == Token("INTEGER_LIT", v)

ArgNames == <<"a", "b", "c", "d">>

ParamValues == <<"1", "2", "3", "0">>

\* `a : i32 , b : char , ...` (sep "comma") or the same without the commas
RECURSIVE ArgTokens(_, _)
ArgTokens(n, sep) ==
  IF n = 0
    THEN <<>>
    ELSE ArgTokens(n - 1, sep)
         \o (IF n > 1 /\ sep = "comma" THEN <<Kw.COMMA>> ELSE <<>>)
         \o <<Id(ArgNames[n]), Kw.COLON, IF n % 2 = 1 THEN Kw.I32 ELSE Kw.CHAR>>

\* `1 , 2 , ...`
RECURSIVE ParamTokens(_)
ParamTokens(k) ==
  IF k = 0
    THEN <<>>
    ELSE ParamTokens(k - 1)
         \o (IF k > 1 THEN <<Kw.COMMA>> ELSE <<>>)
         \o <<IntLit(ParamValues[k])>>

CallTokens(f, params) == <<Id(f), Kw.LPAR>> \o params \o <<Kw.RPAR>>

\* the expressions of a `ret`: supported, nested and unsupported forms
Exprs ==
  {<<IntLit("0")>>, <<IntLit("1")>>, <<Id("a")>>, <<>>, <<Kw.PLUS, IntLit("1")>>}
  \cup {CallTokens(f, ParamTokens(k)) : f \in {"g", "main"}, k \in 0..MaxParams}
  \cup {CallTokens("g", <<Id("a")>>),
        CallTokens("g", CallTokens("h", <<IntLit("1")>>)),
        CallTokens("g", CallTokens("h", <<IntLit("1")>>) \o <<Kw.COMMA, IntLit("2")>>)}

Stmt(e) == <<Kw.RET>> \o e \o <<Kw.SEMICOLON>>

Bodies ==
  {<<>>} \cup {Stmt(e) : e \in Exprs}
  \cup {Stmt(<<IntLit("0")>>) \o Stmt(<<IntLit("1")>>),
        Stmt(CallTokens("g", ParamTokens(1))) \o Stmt(<<Id("a")>>)}

ArrowTokens(arrow) ==
  CASE arrow = "none" -> <<>>
    [] arrow = "i32" -> <<Kw.ARROW, Kw.I32>>
    [] arrow = "char" -> <<Kw.ARROW, Kw.CHAR>>
    [] arrow = "id" -> <<Kw.ARROW, Id("T")>>
    [] arrow = "bare" -> <<Kw.ARROW>>

FnHead(name, args, arrow) ==
  <<Kw.FN, Id(name), Kw.LPAR>> \o args \o <<Kw.RPAR>> \o ArrowTokens(arrow)

FnFwd(name, args, arrow) == FnHead(name, args, arrow) \o <<Kw.SEMICOLON>>

FnDef(name, args, arrow, body) ==
  FnHead(name, args, arrow) \o <<Kw.LCURL>> \o body \o <<Kw.RCURL>>

Member(pub, name) ==
  (IF pub THEN <<Kw.PUB>> ELSE <<>>) \o <<Id(name), Kw.COLON, Kw.I32>>

StructDecl(name) == <<Kw.STRUCT, Id(name), Kw.SEMICOLON>>

StructDef(name, members) ==
  <<Kw.STRUCT, Id(name), Kw.LCURL>> \o members \o <<Kw.RCURL>>

Structs ==
  {StructDecl("S"), StructDef("S", <<>>),
   StructDef("Point", Member(TRUE, "x")), StructDef("S", Member(FALSE, "x")),
   StructDef("S", Member(TRUE, "x") \o Member(TRUE, "y")),
   StructDef("S", <<Kw.PUB, Id("x"), Id("y"), Kw.I32>>)}

Fns ==
  {FnFwd(name, ArgTokens(n, sep), arrow) :
     name \in {"main", "f"}, n \in 0..MaxArgs, sep \in {"comma", "none"},
     arrow \in {"none", "i32", "id", "bare"}}
  \cup {FnDef(name, ArgTokens(n, sep), arrow, Stmt(<<IntLit("0")>>)) :
     name \in {"main", "add"}, n \in 0..MaxArgs, sep \in {"comma", "none"},
     arrow \in {"none", "i32", "char"}}
  \cup {FnDef(name, <<>>, "i32", body) : name \in {"main", "f"}, body \in Bodies}
  \cup {FnDef("f", <<>>, "none", body) : body \in Bodies}

\* one top-level declaration
Decls == Fns \cup Structs

\* the declarations put side by side in a program of two
Core ==
  {FnFwd("f", <<>>, "none"), FnFwd("f", ArgTokens(1, "comma"), "i32"),
   FnDef("main", <<>>, "i32", Stmt(<<IntLit("0")>>)),
   FnDef("f", <<>>, "i32", Stmt(CallTokens("g", ParamTokens(1)))),
   FnDef("f", <<>>, "none", Stmt(<<IntLit("1")>>)),
   FnDef("f", <<>>, "i32", <<>>),
   FnDef("add", ArgTokens(2, "comma"), "i32", Stmt(<<IntLit("0")>>)),
   FnDef("f", <<>>, "i32", Stmt(CallTokens("g", CallTokens("h", <<IntLit("1")>>)))),
   StructDecl("S"), StructDef("Point", Member(TRUE, "x"))}

RECURSIVE Stray(_)
Stray(j) == IF j = 0 THEN <<>> ELSE Stray(j - 1) \o <<Kw.SEMICOLON>>

Programs ==
  {Stray(i) \o d \o Stray(j) : d \in Core, i \in 0..MaxStray, j \in 0..MaxStray}
  \cup {d1 \o Stray(j) \o d2 : d1 \in Core, d2 \in Core, j \in 0..MaxStray}

\* every way a declaration can be cut short
Prefixes(S) == UNION {{SubSeq(d, 1, k) : k \in 0..Len(d)} : d \in S}

Alphabet ==
  {Kw[k] : k \in DOMAIN Kw} \cup {Id("x"), IntLit("1")}

RECURSIVE Words(_)
Words(n) ==
  IF n = 0
    THEN {<<>>}
    ELSE LET W == Words(n - 1) IN W \cup {Append(w, t) : w \in W, t \in Alphabet}

\* a function head whose argument list has a comma with no argument after
\* it, and what may follow its `)`
StrayComma ==
  {<<Kw.FN, Id("bad"), Kw.LPAR>> \o pre \o <<Kw.COMMA, Kw.RPAR>> \o post :
     pre \in {<<>>, ArgTokens(1, "comma")},
     post \in Words(MaxSuffix)
              \cup {<<Kw.ARROW, Kw.I32, Kw.SEMICOLON>>,
                    <<Kw.LCURL, Kw.RET, IntLit("0"), Kw.SEMICOLON, Kw.RCURL>>,
                    <<Id("x"), Kw.COLON, Kw.I32, Kw.RPAR, Kw.SEMICOLON>>}}

\* a function whose identifier is not followed by `(`
Headless ==
  {<<Kw.FN, Id("f")>> \o pre \o post :
     pre \in {<<>>, <<Id("x")>>, <<Kw.RPAR>>},
     post \in {<<Kw.SEMICOLON, Kw.SEMICOLON>>,
               <<Kw.ARROW, Kw.I32, Kw.SEMICOLON>>,
               <<Kw.ARROW, Kw.I32, Kw.LCURL, Kw.RET, IntLit("0"), Kw.SEMICOLON, Kw.RCURL>>,
               <<Kw.LCURL, Kw.RCURL>>}}

Inputs ==
  Prefixes(Decls) \cup Programs \cup StrayComma \cup Headless
  \cup Words(MaxSuffix + 1)

----------------------------------------------------------------------------
(* The state machine.                                                      *)

Init ==
  /\ tokens \in Inputs
  /\ index = 0
  /\ curr = Token(UNINIT, "")
  /\ stack = <<>>
  /\ _ast = <<>>
  /\ cerr = <<>>
  /\ status = "parsing"
  /\ gi = 0
  /\ output = <<>>
  /\ fn_arg_ids = <<>>
  /\ curr_fn_type = ""
  /\ files = <<>>

M ==
  [index |-> index, curr |-> curr, cerr |-> cerr, stack |-> stack,
   ast |-> _ast, status |-> status]

SetM(m) ==
  /\ index' = m.index
  /\ curr' = m.curr
  /\ cerr' = m.cerr
  /\ stack' = m.stack
  /\ _ast' = m.ast
  /\ status' = m.status
  /\ UNCHANGED <<tokens, gvars>>

Running(f) ==
  status = "parsing" /\ stack # <<>> /\ stack[Len(stack)].fn = f

ParserLoop == status = "parsing" /\ stack = <<>> /\ SetM(Parser_step(M))

ParseFn == Running("parse_fn") /\ \E t \in IndeterminateTypes : SetM(parse_fn(M, t))

ParseArgList == Running("parse_arg_list") /\ SetM(parse_arg_list(M))

ParseFnBody == Running("parse_fn_body") /\ SetM(parse_fn_body(M))

ParseStatement == Running("parse_statement") /\ SetM(parse_statement(M))

ParseRetStatement == Running("parse_ret_statement") /\ SetM(parse_ret_statement(M))

ParseFnCall == Running("parse_fn_call") /\ SetM(parse_fn_call(M))

ParseFnCallParam == Running("parse_fn_call_param") /\ SetM(parse_fn_call_param(M))

ParseStruct ==
  Running("parse_struct") /\ \E t \in IndeterminateTypes : SetM(parse_struct(M, t))

ParseStructBody == Running("parse_struct_body") /\ SetM(parse_struct_body(M))

G ==
  [output |-> output, fn_arg_ids |-> fn_arg_ids, curr_fn_type |-> curr_fn_type,
   cerr |-> cerr, crashed |-> FALSE]

\* a Generator is constructed on parser.ast(): the first one by main, a
\* further one by whoever generates from the same AST again
CanGenerate == status \in {"parsed", "done", "crashed"} /\ Len(files) < MaxRuns

\* Generator::Generator, lines 46-57, the file opened
GenOpen ==
  /\ CanGenerate
  /\ status' = "generating"
  /\ output' = Header
  /\ fn_arg_ids' = <<>>
  /\ curr_fn_type' = ""
  /\ gi' = 0
  /\ UNCHANGED <<pvars, files>>

\* Generator::Generator, lines 50-53, the file not opened: exit(1)
GenOpenFail ==
  /\ CanGenerate
  /\ status' = "open_failed"
  /\ UNCHANGED <<pvars, gvars>>

\* Generator::Generator, lines 59-76.  A run that dies leaves the file as it
\* was opened: the lines of a short output are still in the stream's buffer.
GenLoop ==
  /\ status = "generating"
  /\ \E ub \in UBOutcomes :
       LET r == Generator_step(G, _ast, gi, ub) IN
       /\ output' = r.g.output
       /\ fn_arg_ids' = r.g.fn_arg_ids
       /\ curr_fn_type' = r.g.curr_fn_type
       /\ cerr' = r.g.cerr
       /\ IF r.g.crashed
            THEN status' = "crashed" /\ gi' = gi /\ files' = Append(files, <<>>)
            ELSE IF r.next = -1
              THEN status' = "closing" /\ gi' = gi /\ files' = files
              ELSE status' = "generating" /\ gi' = r.next /\ files' = files
  /\ UNCHANGED <<tokens, index, curr, stack, _ast>>

\* Generator::Generator, lines 78-79
GenClose ==
  /\ status = "closing"
  /\ status' = "done"
  /\ output' = Append(output, Line(".ident", NoSym, ""))
  /\ files' = Append(files, output')
  /\ UNCHANGED <<pvars, gi, fn_arg_ids, curr_fn_type>>

Next ==
  \/ ParserLoop
  \/ ParseFn
  \/ ParseArgList
  \/ ParseFnBody
  \/ ParseStatement
  \/ ParseRetStatement
  \/ ParseFnCall
  \/ ParseFnCallParam
  \/ ParseStruct
  \/ ParseStructBody
  \/ GenOpen
  \/ GenOpenFail
  \/ GenLoop
  \/ GenClose

Spec == Init /\ [][Next]_vars

\* the program is one thread that always takes its next step
FairSpec == Spec /\ WF_vars(Next)

----------------------------------------------------------------------------
(* What the claims are stated with.                                        *)

\* the parser has returned: the constructor ran to its end
ParserCompleted ==
  status \in {"parsed", "generating", "closing", "done", "crashed", "open_failed"}

\* the process was ended before the parser returned
ParserAborted == status \in {"aborted", "bad_alloc"}

RECURSIVE IsSubseq(_, _)
IsSubseq(pat, seq) ==
  IF pat = <<>>
    THEN TRUE
    ELSE IF seq = <<>>
      THEN FALSE
      ELSE IF Head(seq) = Head(pat)
        THEN IsSubseq(Tail(pat), Tail(seq))
        ELSE IsSubseq(pat, Tail(seq))

ExpLiteral(v) == ASTNode("LITERAL", v, <<>>)

ExpReturn(children) == ASTNode("FN_RETURN", "", children)

ExpBody(children) == ASTNode("FN_BODY", "", children)

ExpRetType(t) == ASTNode("FN_RET_TYPE", t, <<>>)

RECURSIVE ExpArgs(_)
ExpArgs(n) ==
  IF n = 0
    THEN <<>>
    ELSE Append(ExpArgs(n - 1),
                ASTNode("FN_ARG", ArgNames[n],
                        <<ASTNode("TYPE", IF n % 2 = 1 THEN "i32" ELSE "char", <<>>)>>))

ExpArgList(n) == ASTNode("FN_ARG_LIST", "", ExpArgs(n))

IsLabel(l) == l.op = "label"

IsMainLabel(l) == l.op = "label" /\ l.sym = <<"", "main">>

IsLoadOrCall(l) == l.op \in {"movl $imm, %ecx", "call"}

----------------------------------------------------------------------------
\* C1: parsing `fn ID ( a1 : t1 , ... , an : tn ) -> t { ret 0 ; }`, n >= 0,
\* runs to completion and yields exactly one FN_DECL node named ID with the
\* children [ArgList(a1:t1 ... an:tn), ReturnType(t), Body([Return(Literal 0)])].
C1_DefinitionParses ==
  \A name \in {"main", "add"}, n \in 0..MaxArgs, t \in {"i32", "char"} :
    tokens = FnDef(name, ArgTokens(n, "comma"), t, Stmt(<<IntLit("0")>>)) =>
      /\ ~ParserAborted
      /\ ParserCompleted =>
           _ast = <<ASTNode("FN_DECL", name,
                            <<ExpArgList(n), ExpRetType(t),
                              ExpBody(<<ExpReturn(<<ExpLiteral("0")>>)>>)>>)>>

\* C2: parsing a well-formed `fn` header ended by `;`, with or without
\* `-> type`, with n >= 0 parameters, yields exactly one FN_DEF node named
\* for the identifier, with one FN_ARG per parameter in order and no body.
C2_ForwardDeclarationParses ==
  \A name \in {"main", "f"}, n \in 0..MaxArgs, arrow \in {"none", "i32"} :
    tokens = FnFwd(name, ArgTokens(n, "comma"), arrow) =>
      /\ ~ParserAborted
      /\ ParserCompleted =>
           _ast = <<ASTNode("FN_DEF", name,
                            <<ExpArgList(n)>>
                            \o (IF arrow = "none" THEN <<>> ELSE <<ExpRetType(arrow)>>))>>

\* C3: parsing `struct ID { pub m : i32 }` yields a STRUCT_DEF node named ID
\* whose body holds exactly one PUB_STRUCT_MEMBER named m with a TYPE child
\* `i32`; every `pub ID : type` member yields such a node.
C3_PublicMemberTyped ==
  /\ (tokens = StructDef("Point", Member(TRUE, "x")) /\ ParserCompleted) =>
       _ast = <<ASTNode("STRUCT_DEF", "Point",
                  <<ASTNode("STRUCT_BODY", "",
                      <<ASTNode("PUB_STRUCT_MEMBER", "x",
                                <<ASTNode("TYPE", "i32", <<>>)>>)>>)>>)>>
  /\ (tokens = StructDef("S", Member(TRUE, "x") \o Member(TRUE, "y")) /\ ParserCompleted) =>
       _ast = <<ASTNode("STRUCT_DEF", "S",
                  <<ASTNode("STRUCT_BODY", "",
                      <<ASTNode("PUB_STRUCT_MEMBER", "x",
                                <<ASTNode("TYPE", "i32", <<>>)>>),
                        ASTNode("PUB_STRUCT_MEMBER", "y",
                                <<ASTNode("TYPE", "i32", <<>>)>>)>>)>>)>>

\* the AST of C4: one FN_DECL named main, its argument list empty, its body
\* one return of the literal n
IsMainReturning(nodes, n) ==
  /\ Len(nodes) = 1
  /\ nodes[1].type = "FN_DECL"
  /\ nodes[1].value = "main"
  /\ Len(nodes[1].children) >= 2
  /\ nodes[1].children[1] = ASTNode("FN_ARG_LIST", "", <<>>)
  /\ nodes[1].children[Len(nodes[1].children)] =
       ExpBody(<<ExpReturn(<<ExpLiteral(n)>>)>>)

\* C4: for an AST of one definition of `main` with no arguments that returns
\* the literal n, the output holds, in this order, `.globl main`, the label
\* `main:`, the prologue, the move of n into %eax and the epilogue ending in
\* `ret`; the label `main:` is there exactly once.
C4_MainBlock ==
  \A n \in IntLexemes :
    (status = "done" /\ IsMainReturning(_ast, n)) =>
      /\ IsSubseq(<<Line(".globl", <<"", "main">>, ""),
                    Line("label", <<"", "main">>, ""),
                    Line("pushq %rbp", NoSym, ""),
                    Line("movq %rsp, %rbp", NoSym, ""),
                    Line("movl $imm, %eax", NoSym, n),
                    Line("popq %rbp", NoSym, ""),
                    Line("ret", NoSym, "")>>, output)
      /\ Len(SelectSeq(output, IsMainLabel)) = 1
      /\ Len(SelectSeq(output, IsLabel)) = 1

C4_Witness ==
  /\ status = "done"
  /\ tokens = FnDef("main", <<>>, "i32", Stmt(<<IntLit("1")>>))
  /\ IsMainReturning(_ast, "1")

RECURSIVE ExpLoads(_)
ExpLoads(k) ==
  IF k = 0
    THEN <<>>
    ELSE Append(ExpLoads(k - 1), Line("movl $imm, %ecx", NoSym, ParamValues[k]))

\* C5: for `ret f(p1, ..., pk);` with literal parameters the output holds
\* the loads of p1, ..., pk in this order and then the one call of f's
\* symbol (`_f`, or `main`).
C5_ParamsBeforeCall ==
  \A name \in {"main", "f"}, f \in {"g", "main"}, k \in 0..MaxParams :
    (status = "done"
       /\ tokens = FnDef(name, <<>>, "i32", Stmt(CallTokens(f, ParamTokens(k))))) =>
      SelectSeq(output, IsLoadOrCall) =
        Append(ExpLoads(k),
               Line("call", IF f = "main" THEN <<"", "main">> ELSE <<"_", f>>, ""))

C5_Witness ==
  /\ status = "done"
  /\ tokens = FnDef("f", <<>>, "i32", Stmt(CallTokens("g", ParamTokens(2))))
  /\ Len(SelectSeq(output, IsLoadOrCall)) = 3

\* C6: a token sequence whose argument list has a comma with no argument
\* after it makes the parser abort, whatever follows the `)`: the parser
\* never returns for it.
C6_StrayCommaRejected == tokens \in StrayComma => ~ParserCompleted

C8_ParserTerminates == <>(status # "parsing")

\* the labels of the blocks the generator is to write for these nodes: one
\* for each FN_DECL node, in order
RECURSIVE ExpLabels(_)
ExpLabels(nodes) ==
  IF nodes = <<>>
    THEN <<>>
    ELSE (IF Head(nodes).type = "FN_DECL"
            THEN <<Line("label",
                        IF Head(nodes).value = "main"
                          THEN <<"", "main">>
                          ELSE <<"_", Head(nodes).value>>, "")>>
            ELSE <<>>)
         \o ExpLabels(Tail(nodes))

\* C9: the output holds exactly one labelled block for each FN_DECL node of
\* the AST, in AST order, also after a forward declaration or a struct node,
\* and none for any other node.
C9_OneBlockPerDefinition ==
  status = "done" => SelectSeq(output, IsLabel) = ExpLabels(_ast)

\* the well-formed declarations of C10
WellFormed == Core

\* C10: for well-formed declarations with stray `;` between them the parser
\* returns one entry for each declaration, in source order, and does not
\* abort.
C10_OneEntryPerDeclaration ==
  \A d1 \in WellFormed, d2 \in WellFormed, j \in 0..MaxStray :
    tokens = d1 \o Stray(j) \o d2 =>
      /\ ~ParserAborted
      /\ ParserCompleted =>
           /\ Len(_ast) = 2
           /\ _ast[1].value = d1[2].lexeme
           /\ _ast[2].value = d2[2].lexeme

\* C11: a body with k >= 0 `ret <expr> ;` statements before its `}` parses
\* to a FN_BODY node with exactly k FN_RETURN children in source order.
C11_EveryStatementParsed ==
  /\ (tokens = FnDef("main", <<>>, "i32", <<>>) /\ ParserCompleted) =>
       _ast = <<ASTNode("FN_DECL", "main",
                        <<ExpArgList(0), ExpRetType("i32"), ExpBody(<<>>)>>)>>
  /\ (tokens = FnDef("main", <<>>, "i32", Stmt(<<IntLit("1")>>)) /\ ParserCompleted) =>
       _ast = <<ASTNode("FN_DECL", "main",
                        <<ExpArgList(0), ExpRetType("i32"),
                          ExpBody(<<ExpReturn(<<ExpLiteral("1")>>)>>)>>)>>
  /\ (tokens = FnDef("main", <<>>, "i32",
                     Stmt(<<IntLit("0")>>) \o Stmt(<<IntLit("1")>>))
        /\ ParserCompleted) =>
       _ast = <<ASTNode("FN_DECL", "main",
                        <<ExpArgList(0), ExpRetType("i32"),
                          ExpBody(<<ExpReturn(<<ExpLiteral("0")>>),
                                    ExpReturn(<<ExpLiteral("1")>>)>>)>>)>>

\* C12: `fn f() { ret 0; }`, a function without `->` and with a body,
\* parses to a FN_DECL node (the kind of a definition that has a return
\* type) with an argument list, no return type and a body.
C12_DefinitionWithoutArrow ==
  \A name \in {"f"}, v \in {"0", "1"} :
    (tokens = FnDef(name, <<>>, "none", Stmt(<<IntLit(v)>>)) /\ ParserCompleted) =>
      _ast = <<ASTNode("FN_DECL", name,
                       <<ExpArgList(0), ExpBody(<<ExpReturn(<<ExpLiteral(v)>>)>>)>>)>>

\* the FN_CALL_PARAM nodes of the literal parameters p1 ... pk
RECURSIVE ExpParams(_)
ExpParams(k) ==
  IF k = 0
    THEN <<>>
    ELSE Append(ExpParams(k - 1),
                ASTNode("FN_CALL_PARAM", "", <<ExpLiteral(ParamValues[k])>>))

\* the definition `fn f() -> i32 { ret <call>; }` around a call node
ExpCaller(call) ==
  <<ASTNode("FN_DECL", "f",
            <<ExpArgList(0), ExpRetType("i32"), ExpBody(<<ExpReturn(<<call>>)>>)>>)>>

\* C13: a call `g(p1, ..., pk)` parses to a FN_CALL node named g with
\* exactly k FN_CALL_PARAM children in call-site order, each with exactly
\* one child; the commas produce no child.
C13_OneParamNodePerParameter ==
  /\ \A k \in 0..MaxParams :
       (tokens = FnDef("f", <<>>, "i32", Stmt(CallTokens("g", ParamTokens(k))))
          /\ ParserCompleted) =>
         _ast = ExpCaller(ASTNode("FN_CALL", "g", ExpParams(k)))
  /\ (tokens = FnDef("f", <<>>, "i32", Stmt(CallTokens("g", <<Id("a")>>)))
        /\ ParserCompleted) =>
       _ast = ExpCaller(ASTNode("FN_CALL", "g",
                  <<ASTNode("FN_CALL_PARAM", "", <<ASTNode("VAR_CALL", "a", <<>>)>>)>>))

\* the node of the inner call `h(1)`, as a parameter of an outer call
ExpInner ==
  ASTNode("FN_CALL_PARAM", "",
          <<ASTNode("FN_CALL", "h",
                    <<ASTNode("FN_CALL_PARAM", "", <<ExpLiteral("1")>>)>>)>>)

\* C14: when a parameter of a call is itself a call, the outer call ends at
\* its own `)`: its node holds the parameters written between its
\* parentheses and nothing of what follows them, and the declaration after
\* it is still parsed.
C14_OuterCallStopsAtItsParen ==
  /\ tokens = FnDef("f", <<>>, "i32", Stmt(CallTokens("g", CallTokens("h", <<IntLit("1")>>)))) =>
       /\ ~ParserAborted
       /\ ParserCompleted => _ast = ExpCaller(ASTNode("FN_CALL", "g", <<ExpInner>>))
  /\ \A d \in {StructDecl("S"), FnFwd("f", <<>>, "none")} :
       tokens = FnDef("f", <<>>, "i32", Stmt(CallTokens("g", CallTokens("h", <<IntLit("1")>>))))
                \o d =>
         /\ ~ParserAborted
         /\ ParserCompleted =>
              /\ Len(_ast) = 2
              /\ _ast[1] = ExpCaller(ASTNode("FN_CALL", "g", <<ExpInner>>))[1]
  /\ (tokens = FnDef("f", <<>>, "i32",
                     Stmt(CallTokens("g", CallTokens("h", <<IntLit("1")>>)
                                          \o <<Kw.COMMA, IntLit("2")>>)))
        /\ ParserCompleted) =>
       _ast = ExpCaller(ASTNode("FN_CALL", "g",
                  <<ExpInner, ASTNode("FN_CALL_PARAM", "", <<ExpLiteral("2")>>)>>))

\* C15: when `->` is followed by a token that is not `i32` or `char`, an
\* identifier included, the parser writes a diagnostic and produces a
\* FN_RET_TYPE node with empty text; it does not abort.
C15_UnknownReturnTypeReported ==
  \A name \in {"main", "f"}, arrow \in {"id", "bare"} :
    tokens = FnFwd(name, <<>>, arrow) =>
      /\ ~ParserAborted
      /\ ParserCompleted =>
           /\ Len(_ast) = 1
           /\ Len(_ast[1].children) = 2
           /\ _ast[1].children[2] = ExpRetType("")
           /\ \E i \in 1..Len(cerr) : cerr[i] = "ERROR(parse_fn_ret_type)"

\* the text written for a definition whose body emits no instruction
ExpBareBlock(name) ==
  Header \o
  <<Line("# fn", <<"", name>>, ""),
    Line(".globl", IF name = "main" THEN <<"", "main">> ELSE <<"_", name>>, ""),
    Line("label", IF name = "main" THEN <<"", "main">> ELSE <<"_", name>>, ""),
    Line("# setup stack ptr", NoSym, ""),
    Line("pushq %rbp", NoSym, ""),
    Line("movq %rsp, %rbp", NoSym, ""),
    Line("# return stack ptr", NoSym, ""),
    Line("popq %rbp", NoSym, ""),
    Line("ret", NoSym, ""),
    Line(".ident", NoSym, "")>>

\* C16: for `ret ;` and `ret + 1 ;`, whose FN_RETURN node has no child, the
\* generator writes no instruction for the return and goes on to the
\* epilogue; the run does not die on the read of a child that is not there.
C16_BareReturnEmitsNothing ==
  \A name \in {"main", "f"}, e \in {<<>>, <<Kw.PLUS, IntLit("1")>>} :
    tokens = FnDef(name, <<>>, "i32", Stmt(e)) =>
      /\ status # "crashed"
      /\ status = "done" => output = ExpBareBlock(name)

\* the instructions that load a literal parameter, by the register they
\* load: the conventional parameter registers in their order
ParamLoads ==
  <<"movl $imm, %ecx", "movl $imm, %edx", "movl $imm, %r8d", "movl $imm, %r9d">>

IsParamLoad(l) == \E r \in 1..Len(ParamLoads) : l.op = ParamLoads[r]

\* C17: in the code of a call with k >= 2 literal parameters the i-th
\* parameter is moved into the i-th parameter register: no two parameters
\* of the call are loaded into the same register.
C17_OneRegisterPerParameter ==
  \A name \in {"main", "f"}, f \in {"g", "main"}, k \in 2..MaxParams :
    (status = "done"
       /\ tokens = FnDef(name, <<>>, "i32", Stmt(CallTokens(f, ParamTokens(k))))) =>
      LET loads == SelectSeq(output, IsParamLoad) IN
      /\ Len(loads) = k
      /\ \A i \in 1..k : loads[i] = Line(ParamLoads[i], NoSym, ParamValues[i])

\* inside a parse function the cursor is on a token, and `curr` is that
\* token or the end marker that consume returned on the last token
CursorInBounds ==
  stack # <<>> =>
    /\ index < Len(tokens)
    /\ \/ curr = At(index)
       \/ curr = EOFToken /\ index = Len(tokens) - 1

\* a step of a parse function that starts with the cursor on the last token
\* leaves the cursor there, and leaves `curr` that token or the end marker
StaysOnLastToken ==
  (stack # <<>> /\ stack' # <<>> /\ index = Len(tokens) - 1) =>
    /\ index' = index
    /\ curr' \in {At(index), EOFToken}

\* C18: while parsing, `index` never decreases and inside every parse
\* function index < tokens.size(), so tokens[index] is read within bounds;
\* consume on the last token returns the end marker and leaves the cursor
\* unchanged.
C18_ForwardCursorInBounds ==
  /\ []CursorInBounds
  /\ [][index' >= index /\ index' <= Len(tokens)]_vars
  /\ [][StaysOnLastToken]_vars

C18_Witness ==
  /\ stack # <<>>
  /\ Len(tokens) >= 3
  /\ index = Len(tokens) - 1
  /\ curr = EOFToken

FnKinds == {"FN_DEF", "FN_DECL"}

RECURSIVE Kinds(_)
Kinds(nodes) ==
  IF nodes = <<>> THEN <<>> ELSE <<Head(nodes).type>> \o Kinds(Tail(nodes))

\* the shapes of a function node in the data model: an argument list, then
\* an optional return type, then an optional body
FullShapes ==
  {<<"FN_ARG_LIST">>, <<"FN_ARG_LIST", "FN_RET_TYPE">>,
   <<"FN_ARG_LIST", "FN_BODY">>, <<"FN_ARG_LIST", "FN_RET_TYPE", "FN_BODY">>}

\* the same with any of the three missing
PartialShapes ==
  FullShapes \cup {<<>>, <<"FN_RET_TYPE">>, <<"FN_BODY">>, <<"FN_RET_TYPE", "FN_BODY">>}

\* C19 as stated: on every token sequence the parser completes on, every
\* FN_DEF or FN_DECL node it returns has as children an argument list, then
\* at most one return type, then at most one body; the first child is
\* always the argument list.
C19_ArgListAlwaysFirst ==
  ParserCompleted =>
    \A i \in 1..Len(_ast) :
      _ast[i].type \in FnKinds => Kinds(_ast[i].children) \in FullShapes

\* C19 amended: the children of every FN_DEF or FN_DECL node returned are,
\* in this order, at most one argument list, at most one return type and at
\* most one body; the argument list is there, and first, when the function
\* identifier is followed by `(`.
C19_ChildrenInGrammarOrder ==
  ParserCompleted =>
    /\ \A i \in 1..Len(_ast) :
         _ast[i].type \in FnKinds => Kinds(_ast[i].children) \in PartialShapes
    /\ (/\ Len(tokens) >= 3
        /\ tokens[1].type = "FN" /\ tokens[2].type = "ID" /\ tokens[3].type = "LPAR"
        /\ _ast # <<>>) =>
         Kinds(_ast[1].children) \in FullShapes

C19_Witness ==
  /\ status = "parsed"
  /\ tokens = <<Kw.FN, Id("f"), Id("x"), Kw.ARROW, Kw.I32, Kw.SEMICOLON>>
  /\ _ast = <<ASTNode("FN_DEF", "f", <<ExpRetType("i32")>>)>>

====
